---- MODULE Spec2Model ----
(***************************************************************************)
(* Model of app.py: a Flask facade over a Cosmos DB container (partition   *)
(* key /category) and a Key Vault secret store.                            *)
(*                                                                         *)
(* The two backends are external services.  They are modelled by the       *)
(* contract of the SDK calls the handlers make: a container is a set of    *)
(* JSON documents unique per (id, partition key), a vault is a set of      *)
(* enabled secrets unique per name.  Backend transport failures, the       *)
(* system properties Cosmos adds to a document (_etag, _ts, ...) and the   *)
(* Key Vault timestamps are not modelled.                                  *)
(*                                                                         *)
(* A Python value that may be None is modelled as a set of at most one     *)
(* element: None is {}, a present value x is {x}.  A JSON object is a      *)
(* function from field names to values.                                    *)
(***************************************************************************)
EXTENDS Integers, FiniteSets, Sequences, Bags, TLC

\* ------------------------------------------------------------------ bounds
\* Number of requests that may be between validation and the backend call
MaxInFlight == 2

\* ------------------------------------------------------------- Python values
None == {}
Some(x) == {x}
The(o) == CHOOSE x \in o : TRUE

EmptyDict == [k \in {} |-> ""]
Has(d, k) == k \in DOMAIN d
SetField(d, k, v) == [f \in (DOMAIN d) \cup {k} |-> IF f = k THEN v ELSE d[f]]

\* `not s` for an optional string: None and "" are both falsy
NotStr(o) == o = None \/ The(o) = ""
\* `not d` for an optional JSON object: None and {} are both falsy
NotDict(o) == o = None \/ DOMAIN The(o) = {}

\* ------------------------------------------------------------ request inputs
ItemIds == {"a", "b"}
Categories == {"", "c"}
Notes == {"x"}
SecretNames == {"foo", "baz"}
SecretValues == {"bar", "qux"}

FieldValues(k) ==
  IF k = "id" THEN ItemIds
  ELSE IF k = "category" THEN Categories
  ELSE IF k = "note" THEN Notes
  ELSE SecretValues

\* JSON objects over the given fields, each field optional
Dicts(fields) ==
  UNION {{d \in [D -> ItemIds \cup Categories \cup Notes \cup SecretValues] :
            \A k \in D : d[k] \in FieldValues(k)} : D \in SUBSET fields}

ItemDicts == Dicts({"id", "category", "note"})
SecretDicts == Dicts({"value", "note"})

\* request.get_json(): None or a JSON object
ItemBodies == {None} \cup {Some(d) : d \in ItemDicts}
SecretBodies == {None} \cup {Some(d) : d \in SecretDicts}
\* request.args.get('category'): None or a string
CategoryArgs == {None} \cup {Some(c) : c \in Categories}

InitOutcomesCosmos == {"no_endpoint", "client_error", "database_error", "container_error", "ok"}
InitOutcomesKeyVault == {"no_url", "client_error", "ok"}

VARIABLES
  phase,            \* position of the module-level code: lines 305-306, then serving
  cosmos_client,    \* global, None or the client
  database,         \* global, None or the database proxy
  container,        \* global, None or the container proxy
  keyvault_client,  \* global, None or the secret client
  init_result,      \* return values of the two initializers
  items,            \* documents held by the Cosmos container
  secrets,          \* secrets held by the vault
  inflight,         \* bag of validated document requests about to call the backend
  last              \* the request most recently answered, with its response

vars == <<phase, cosmos_client, database, container, keyvault_client,
          init_result, items, secrets, inflight, last>>

handles == <<phase, cosmos_client, database, container, keyvault_client, init_result>>

\* ---------------------------------------------------------------- responses
Resp(status, body) == [status |-> status, body |-> body]
Err(status, msg) == Resp(status, [error |-> msg])

Answer(op, id, category, data, resp, called) ==
  [op |-> op, id |-> id, category |-> category, data |-> data,
   status |-> resp.status, body |-> resp.body, backend |-> called]

NoRequest == Answer("none", "", None, None, Resp(0, EmptyDict), FALSE)

Init ==
  /\ phase = "init_cosmos"
  /\ cosmos_client = None
  /\ database = None
  /\ container = None
  /\ keyvault_client = None
  /\ init_result = [cosmos |-> FALSE, keyvault |-> FALSE]
  /\ items = {}
  /\ secrets = {}
  /\ inflight = EmptyBag
  /\ last = NoRequest

\* ------------------------------------------------------------- initializers
\* The globals are assigned one by one inside the try block, so a failure at a
\* later call leaves the earlier assignments in place.
initialize_cosmos_client ==
  /\ phase = "init_cosmos"
  /\ \E outcome \in InitOutcomesCosmos :
       /\ cosmos_client' = IF outcome \in {"no_endpoint", "client_error"}
                           THEN None ELSE Some("CosmosClient")
       /\ database' = IF outcome \in {"container_error", "ok"}
                      THEN Some("DatabaseProxy") ELSE None
       /\ container' = IF outcome = "ok" THEN Some("ContainerProxy") ELSE None
       /\ init_result' = [init_result EXCEPT !.cosmos = (outcome = "ok")]
  /\ phase' = "init_keyvault"
  /\ UNCHANGED <<keyvault_client, items, secrets, inflight, last>>

initialize_keyvault_client ==
  /\ phase = "init_keyvault"
  /\ \E outcome \in InitOutcomesKeyVault :
       /\ keyvault_client' = IF outcome = "ok" THEN Some("SecretClient") ELSE None
       /\ init_result' = [init_result EXCEPT !.keyvault = (outcome = "ok")]
  /\ phase' = "serving"
  /\ UNCHANGED <<cosmos_client, database, container, items, secrets, inflight, last>>

\* ------------------------------------------------------------------ /health
health_response ==
  Resp(200, [status |-> "healthy",
             cosmos_connected |-> cosmos_client # None,
             keyvault_connected |-> keyvault_client # None])

health_check ==
  /\ phase = "serving"
  /\ last' = Answer("health", "", None, None, health_response, FALSE)
  /\ UNCHANGED <<handles, items, secrets, inflight>>

\* ------------------------------------------------- Cosmos container (backend)
\* The partition key path is /category (line 54): a document's key is the pair
\* (id, category).  A call either raises or returns; raised = "" is a return.
Returned(result, store) == [raised |-> "", result |-> result, store |-> store]
Raised(exc, store) == [raised |-> exc, result |-> EmptyDict, store |-> store]

\* Partition key of a document: the value at /category, undefined when absent
PartitionKeyOf(d) == IF Has(d, "category") THEN Some(d.category) ELSE None

SameKey(d, id, pk) == d.id = id /\ PartitionKeyOf(d) = pk

container_read_all_items(store) == store

container_read_item(store, id, pk) ==
  LET found == {d \in store : SameKey(d, id, pk)} IN
  IF found = {} THEN Raised("CosmosResourceNotFoundError", store)
  ELSE Returned(The(found), store)

\* Variant: create that overwrites a stored document instead of raising
container_create_item_overwrite(store, body) ==
  IF ~Has(body, "id") THEN Raised("CosmosHttpResponseError", store)
  ELSE Returned(body, {d \in store : ~SameKey(d, body.id, PartitionKeyOf(body))} \cup {body})

\* Strict create: a document needs an id, and its (id, partition key) must be new
container_create_item(store, body) ==
  IF ~Has(body, "id") THEN Raised("CosmosHttpResponseError", store)
  ELSE IF \E d \in store : SameKey(d, body.id, PartitionKeyOf(body))
    THEN Raised("CosmosResourceExistsError", store)
  ELSE Returned(body, store \cup {body})

container_upsert_item(store, body) ==
  IF ~Has(body, "id") THEN Raised("CosmosHttpResponseError", store)
  ELSE Returned(body, {d \in store : ~SameKey(d, body.id, PartitionKeyOf(body))} \cup {body})

\* Variant: delete that returns normally when there is nothing to delete
container_delete_item_silent(store, id, pk) ==
  Returned(EmptyDict, {d \in store : ~SameKey(d, id, pk)})

container_delete_item(store, id, pk) ==
  IF \E d \in store : SameKey(d, id, pk)
  THEN Returned(EmptyDict, {d \in store : ~SameKey(d, id, pk)})
  ELSE Raised("CosmosResourceNotFoundError", store)

\* ------------------------------------------------------- document handlers
\* Each handler is split where the code is: the statements before the backend
\* call (readiness check, parsing, validation; an early return is Some(resp))
\* and the backend call with the mapping of its result to a response.
Req(op, id, category, data) == [op |-> op, id |-> id, category |-> category, data |-> data]

Outcome(resp, store) == [resp |-> resp, store |-> store]

get_items_validate ==
  IF container = None THEN Some(Err(500, "Cosmos DB not initialized")) ELSE None

get_items_backend(store) ==
  LET found == container_read_all_items(store) IN
  Outcome(Resp(200, [count |-> Cardinality(found), items |-> found]), store)

get_item_validate(category) ==
  IF container = None THEN Some(Err(500, "Cosmos DB not initialized"))
  ELSE IF NotStr(category) THEN Some(Err(400, "category query parameter is required"))
  ELSE None

get_item_backend(item_id, category, store) ==
  LET r == container_read_item(store, item_id, Some(category)) IN
  IF r.raised = "CosmosResourceNotFoundError" THEN Outcome(Err(404, "Item not found"), r.store)
  ELSE IF r.raised # "" THEN Outcome(Err(500, r.raised), r.store)
  ELSE Outcome(Resp(200, r.result), r.store)

\* Variant: the body is validated before the readiness check
create_item_validate_body_first(data) ==
  IF NotDict(data) THEN Some(Err(400, "Request body is required"))
  ELSE IF ~Has(The(data), "id") \/ ~Has(The(data), "category")
    THEN Some(Err(400, "id and category fields are required"))
  ELSE IF container = None THEN Some(Err(500, "Cosmos DB not initialized"))
  ELSE None

create_item_validate(data) ==
  IF container = None THEN Some(Err(500, "Cosmos DB not initialized"))
  ELSE IF NotDict(data) THEN Some(Err(400, "Request body is required"))
  ELSE IF ~Has(The(data), "id") \/ ~Has(The(data), "category")
    THEN Some(Err(400, "id and category fields are required"))
  ELSE None

create_item_backend(data, store) ==
  LET r == container_create_item(store, data) IN
  IF r.raised = "CosmosResourceExistsError" THEN Outcome(Err(409, "Item already exists"), r.store)
  ELSE IF r.raised # "" THEN Outcome(Err(500, r.raised), r.store)
  ELSE Outcome(Resp(201, r.result), r.store)

\* Variant: the category check is left out
update_item_validate_no_category(data) ==
  IF container = None THEN Some(Err(500, "Cosmos DB not initialized"))
  ELSE IF NotDict(data) THEN Some(Err(400, "Request body is required"))
  ELSE None

update_item_validate(data) ==
  IF container = None THEN Some(Err(500, "Cosmos DB not initialized"))
  ELSE IF NotDict(data) THEN Some(Err(400, "Request body is required"))
  ELSE IF ~Has(The(data), "category") THEN Some(Err(400, "category field is required"))
  ELSE None

\* Variant: the path id is used only when the body has no id
update_item_body_keep_id(item_id, data) ==
  IF Has(data, "id") THEN data ELSE SetField(data, "id", item_id)

\* data['id'] = item_id
update_item_body(item_id, data) == SetField(data, "id", item_id)

update_item_backend(item_id, data, store) ==
  LET r == container_upsert_item(store, update_item_body(item_id, data)) IN
  IF r.raised # "" THEN Outcome(Err(500, r.raised), r.store)
  ELSE Outcome(Resp(200, r.result), r.store)

delete_item_validate(category) ==
  IF container = None THEN Some(Err(500, "Cosmos DB not initialized"))
  ELSE IF NotStr(category) THEN Some(Err(400, "category query parameter is required"))
  ELSE None

delete_item_backend(item_id, category, store) ==
  LET r == container_delete_item(store, item_id, Some(category)) IN
  IF r.raised = "CosmosResourceNotFoundError" THEN Outcome(Err(404, "Item not found"), r.store)
  ELSE IF r.raised # "" THEN Outcome(Err(500, r.raised), r.store)
  ELSE Outcome(Resp(200, [message |-> "Item deleted successfully"]), r.store)

DocValidate(req) ==
  CASE req.op = "list" -> get_items_validate
    [] req.op = "get" -> get_item_validate(req.category)
    [] req.op = "create" -> create_item_validate(req.data)
    [] req.op = "update" -> update_item_validate(req.data)
    [] req.op = "delete" -> delete_item_validate(req.category)

DocBackend(req, store) ==
  CASE req.op = "list" -> get_items_backend(store)
    [] req.op = "get" -> get_item_backend(req.id, The(req.category), store)
    [] req.op = "create" -> create_item_backend(The(req.data), store)
    [] req.op = "update" -> update_item_backend(req.id, The(req.data), store)
    [] req.op = "delete" -> delete_item_backend(req.id, The(req.category), store)

\* One request handled from start to finish.
ServeDoc(req) ==
  /\ phase = "serving"
  /\ LET early == DocValidate(req) IN
       IF early # None
       THEN /\ last' = Answer(req.op, req.id, req.category, req.data, The(early), FALSE)
            /\ items' = items
       ELSE LET r == DocBackend(req, items) IN
            /\ last' = Answer(req.op, req.id, req.category, req.data, r.resp, TRUE)
            /\ items' = r.store
  /\ UNCHANGED <<handles, secrets, inflight>>

get_items == ServeDoc(Req("list", "", None, None))

get_item ==
  \E item_id \in ItemIds, category \in CategoryArgs :
    ServeDoc(Req("get", item_id, category, None))

create_item ==
  \E data \in ItemBodies : ServeDoc(Req("create", "", None, data))

update_item ==
  \E item_id \in ItemIds, data \in ItemBodies :
    ServeDoc(Req("update", item_id, None, data))

delete_item ==
  \E item_id \in ItemIds, category \in CategoryArgs :
    ServeDoc(Req("delete", item_id, category, None))

\* ----------------------------------------------------- Key Vault (backend)
vault_list_properties_of_secrets(store) ==
  {[name |-> s.name, enabled |-> s.enabled] : s \in store}

vault_get_secret(store, name) ==
  LET found == {s \in store : s.name = name} IN
  IF found = {} THEN Raised("ResourceNotFoundError", store)
  ELSE Returned(The(found), store)

\* Variant: set that keeps the value of a secret that exists
vault_set_secret_keep_existing(store, name, value) ==
  LET secret == [name |-> name, value |-> value, enabled |-> TRUE]
      found == {s \in store : s.name = name} IN
  IF found = {} THEN Returned(secret, store \cup {secret})
  ELSE Returned(The(found), store)

vault_set_secret(store, name, value) ==
  LET secret == [name |-> name, value |-> value, enabled |-> TRUE] IN
  Returned(secret, {s \in store : s.name # name} \cup {secret})

\* --------------------------------------------------------- secret handlers
list_secrets_validate ==
  IF keyvault_client = None THEN Some(Err(500, "Key Vault not initialized")) ELSE None

\* Variant: the listed entries carry the whole secret
list_secrets_backend_with_value(store) ==
  Outcome(Resp(200, [count |-> Cardinality(store), secrets |-> store]), store)

list_secrets_backend(store) ==
  LET listed == {[name |-> p.name, enabled |-> p.enabled] :
                   p \in vault_list_properties_of_secrets(store)} IN
  Outcome(Resp(200, [count |-> Cardinality(listed), secrets |-> listed]), store)

get_secret_validate ==
  IF keyvault_client = None THEN Some(Err(500, "Key Vault not initialized")) ELSE None

get_secret_backend(secret_name, store) ==
  LET r == vault_get_secret(store, secret_name) IN
  IF r.raised # "" THEN Outcome(Err(500, r.raised), r.store)
  ELSE Outcome(Resp(200, [name |-> r.result.name, value |-> r.result.value,
                          enabled |-> r.result.enabled]), r.store)

set_secret_validate(data) ==
  IF keyvault_client = None THEN Some(Err(500, "Key Vault not initialized"))
  ELSE IF NotDict(data) \/ ~Has(The(data), "value")
    THEN Some(Err(400, "Request body must contain 'value' field"))
  ELSE None

set_secret_backend(secret_name, data, store) ==
  LET r == vault_set_secret(store, secret_name, data.value) IN
  IF r.raised # "" THEN Outcome(Err(500, r.raised), r.store)
  ELSE Outcome(Resp(201, [name |-> r.result.name,
                     message |-> "Secret created/updated successfully"]), r.store)

SecretValidate(req) ==
  CASE req.op = "list_secrets" -> list_secrets_validate
    [] req.op = "get_secret" -> get_secret_validate
    [] req.op = "set_secret" -> set_secret_validate(req.data)

SecretBackend(req, store) ==
  CASE req.op = "list_secrets" -> list_secrets_backend(store)
    [] req.op = "get_secret" -> get_secret_backend(req.id, store)
    [] req.op = "set_secret" -> set_secret_backend(req.id, The(req.data), store)

ServeSecret(req) ==
  /\ phase = "serving"
  /\ LET early == SecretValidate(req) IN
       IF early # None
       THEN /\ last' = Answer(req.op, req.id, req.category, req.data, The(early), FALSE)
            /\ secrets' = secrets
       ELSE LET r == SecretBackend(req, secrets) IN
            /\ last' = Answer(req.op, req.id, req.category, req.data, r.resp, TRUE)
            /\ secrets' = r.store
  /\ UNCHANGED <<handles, items, inflight>>

list_secrets == ServeSecret(Req("list_secrets", "", None, None))

get_secret ==
  \E secret_name \in SecretNames : ServeSecret(Req("get_secret", secret_name, None, None))

set_secret ==
  \E secret_name \in SecretNames, data \in SecretBodies :
    ServeSecret(Req("set_secret", secret_name, None, data))

\* --------------------------------------------------------------------- /
home ==
  /\ phase = "serving"
  /\ last' = Answer("home", "", None, None,
                    Resp(200, [name |-> "Azure Container App - Cosmos DB & Key Vault Demo"]), FALSE)
  /\ UNCHANGED <<handles, items, secrets, inflight>>

Next ==
  \/ initialize_cosmos_client
  \/ initialize_keyvault_client
  \/ health_check
  \/ get_items
  \/ get_item
  \/ create_item
  \/ update_item
  \/ delete_item
  \/ list_secrets
  \/ get_secret
  \/ set_secret
  \/ home

Spec == Init /\ [][Next]_vars

\* ------------------------------------------- concurrent document requests
\* One worker per request (gunicorn): a create that passed validation sits
\* between its last local statement and container.create_item while other
\* requests are handled.  The backend call itself is atomic in the service.
\* A get or a delete touches the container in one call as well and is taken
\* as one step between the two halves of the creates.
create_item_begin ==
  /\ phase = "serving"
  /\ \E data \in ItemBodies :
       LET early == create_item_validate(data) IN
       IF early # None
       THEN /\ last' = Answer("create", "", None, data, The(early), FALSE)
            /\ inflight' = inflight
       ELSE /\ BagCardinality(inflight) < MaxInFlight
            /\ inflight' = inflight (+) SetToBag({Req("create", "", None, data)})
            /\ last' = last
  /\ UNCHANGED <<handles, items, secrets>>

create_item_call ==
  /\ phase = "serving"
  /\ \E req \in BagToSet(inflight) :
       LET r == create_item_backend(The(req.data), items) IN
       /\ last' = Answer(req.op, req.id, req.category, req.data, r.resp, TRUE)
       /\ items' = r.store
       /\ inflight' = inflight (-) SetToBag({req})
  /\ UNCHANGED <<handles, secrets>>

NextConcurrent ==
  \/ initialize_cosmos_client
  \/ initialize_keyvault_client
  \/ create_item_begin
  \/ create_item_call
  \/ get_item
  \/ delete_item

SpecConcurrent == Init /\ [][NextConcurrent]_vars

\* ===================================================================== claims
DocOps == {"list", "get", "create", "update", "delete"}
SecretOps == {"list_secrets", "get_secret", "set_secret"}

\* A step that answers a request
Answers(op) == last' # last /\ last'.op = op
\* A step in which a request in flight makes its backend call
Lands(op) == BagCardinality(inflight') < BagCardinality(inflight) /\ last'.op = op

Stored(store, id, pk) == {d \in store : SameKey(d, id, pk)}

\* C1: a document request handled while the container handle is not ready,
\* and a secret request handled while the vault handle is not ready, is
\* answered 500 with an error body, without a backend call and with both
\* stores unchanged, whatever its parameters and body are.
C1_NotReadyIs500 ==
  [][ /\ (last' # last /\ last'.op \in DocOps /\ container = None)
          => /\ last'.status = 500
             /\ Has(last'.body, "error")
             /\ ~last'.backend
             /\ items' = items /\ secrets' = secrets
      /\ (last' # last /\ last'.op \in SecretOps /\ keyvault_client = None)
          => /\ last'.status = 500
             /\ Has(last'.body, "error")
             /\ ~last'.backend
             /\ items' = items /\ secrets' = secrets ]_vars

\* a create with no body on a not-ready handle was answered 500
C1_Witness ==
  /\ container = None
  /\ last.op = "create"
  /\ last.data = None
  /\ last.status = 500

\* C2: a get that directly follows a successful create (201) and asks for the
\* created item's own (id, category) is answered 200 with the created item.
C2_RoundTrip ==
  [][ ( /\ last.op = "create" /\ last.status = 201
        /\ last'.op = "get"
        /\ last'.id = The(last.data).id
        /\ last'.category = Some(The(last.data).category) )
      => (last'.status = 200 /\ last'.body = last.body) ]_vars

C4_AsStated ==
  [][ (Answers("delete") /\ container # None /\ last'.category # None)
      => IF Stored(items, last'.id, last'.category) = {}
         THEN last'.status = 404 /\ items' = items
         ELSE /\ last'.status = 200
              /\ items' = items \ Stored(items, last'.id, last'.category) ]_vars

\* C4 amended: the same for a delete whose category is not empty; and a delete
\* or a get of the pair that directly follows a successful delete is answered 404.
C4_Delete ==
  [][ /\ (Answers("delete") /\ container # None /\ ~NotStr(last'.category))
          => IF Stored(items, last'.id, last'.category) = {}
             THEN last'.status = 404 /\ items' = items
             ELSE /\ last'.status = 200
                  /\ items' = items \ Stored(items, last'.id, last'.category)
      /\ ( /\ last.op = "delete" /\ last.status = 200
           /\ last' # last /\ last'.op \in {"delete", "get"}
           /\ last'.id = last.id /\ last'.category = last.category )
          => last'.status = 404 ]_vars

\* a stored item was deleted: 200, and its pair is no longer stored
C4_Witness ==
  /\ last.op = "delete"
  /\ last.status = 200
  /\ Stored(items, last.id, last.category) = {}
  /\ items # {}

\* C5: with the container ready, an update whose body has a category is
\* answered 200; afterwards the container holds under (path id, category)
\* exactly the body with its id set to the path id, every other pair is
\* untouched, and handling the same update again changes nothing.
C5_Upsert ==
  [][ ( /\ Answers("update") /\ container # None
        /\ last'.data # None /\ Has(The(last'.data), "category") )
      => LET body == The(last'.data)
             put == SetField(body, "id", last'.id)
         IN /\ last'.status = 200
            /\ last'.body = put
            /\ Stored(items', last'.id, Some(body.category)) = {put}
            /\ items' \ {put} = items \ Stored(items, last'.id, Some(body.category))
            /\ update_item_backend(last'.id, body, items').store = items' ]_vars

\* an update whose body carried another id than the path was stored under the path id
C5_Witness ==
  /\ last.op = "update"
  /\ last.status = 200
  /\ Has(The(last.data), "id")
  /\ The(last.data).id # last.id
  /\ SetField(The(last.data), "id", last.id) \in items

\* C6: once serving, /health reports a backend connected exactly when its
\* initializer returned success, and exactly when that backend's handlers do
\* not answer 'not initialized'.
C6_HealthMatchesReadiness ==
  phase = "serving" =>
    /\ health_response.body.cosmos_connected <=> init_result.cosmos
    /\ health_response.body.cosmos_connected <=> (get_items_validate = None)
    /\ health_response.body.keyvault_connected <=> init_result.keyvault
    /\ health_response.body.keyvault_connected <=> (list_secrets_validate = None)

\* A request that omits a required input
MissingInput(r) ==
  \/ r.op = "create" /\ (NotDict(r.data) \/ ~Has(The(r.data), "id") \/ ~Has(The(r.data), "category"))
  \/ r.op = "update" /\ (NotDict(r.data) \/ ~Has(The(r.data), "category"))
  \/ r.op \in {"get", "delete"} /\ r.category = None
  \/ r.op = "set_secret" /\ (NotDict(r.data) \/ ~Has(The(r.data), "value"))

HandleReady(op) == IF op \in DocOps THEN container # None ELSE keyvault_client # None

\* C7: with the handle ready, a request that omits a required input is answered
\* 400 without a backend call and with both stores unchanged; a create whose
\* body has id and category and whose pair is not stored is answered 201.
C7_MissingInputIs400 ==
  [][ /\ ( /\ last' # last /\ last'.op \in DocOps \cup SecretOps
           /\ HandleReady(last'.op) /\ MissingInput(last') )
          => /\ last'.status = 400
             /\ ~last'.backend
             /\ items' = items /\ secrets' = secrets
      /\ ( /\ Answers("create") /\ container # None /\ ~MissingInput(last')
           /\ Stored(items, The(last'.data).id, Some(The(last'.data).category)) = {} )
          => last'.status = 201 ]_vars

\* a create whose body has an id and no category was answered 400 on a ready handle
C7_Witness ==
  /\ container # None
  /\ last.op = "create"
  /\ last.data # None
  /\ Has(The(last.data), "id") /\ ~Has(The(last.data), "category")
  /\ last.status = 400

\* C8: with the vault ready, a set with a value is answered 201 and leaves
\* under the name exactly that value, nothing but a successful set changes the
\* vault, and a get is answered 200 with the value the vault holds under the
\* name, or 500 when the name holds nothing.
C8_SetThenGet ==
  [][ /\ ( /\ Answers("set_secret") /\ keyvault_client # None
           /\ ~MissingInput(last') )
          => /\ last'.status = 201
             /\ {s \in secrets' : s.name = last'.id}
                  = {[name |-> last'.id, value |-> The(last'.data).value, enabled |-> TRUE]}
             /\ {s \in secrets' : s.name # last'.id} = {s \in secrets : s.name # last'.id}
      /\ (secrets' # secrets) => (last'.op = "set_secret" /\ last'.status = 201)
      /\ (Answers("get_secret") /\ keyvault_client # None)
          => IF \E s \in secrets : s.name = last'.id
             THEN /\ last'.status = 200
                  /\ \E s \in secrets : s.name = last'.id /\ last'.body.value = s.value
             ELSE last'.status = 500
      /\ ( /\ last.op = "set_secret" /\ last.status = 201
           /\ Answers("get_secret") /\ last'.id = last.id )
          => (last'.status = 200 /\ last'.body.value = The(last.data).value) ]_vars

\* a get returned the value of a secret while the vault holds two secrets
C8_Witness ==
  /\ last.op = "get_secret"
  /\ last.status = 200
  /\ last.body.value = "qux"
  /\ Cardinality(secrets) = 2

\* C9: in every state of the vault, the list response has one entry per stored
\* secret, each with its name and enabled flag only, and a count equal to the
\* number of entries; the get response of a stored name carries its value.
C9_ListHidesValues ==
  /\ LET body == list_secrets_backend(secrets).resp.body IN
       /\ \A e \in body.secrets : DOMAIN e = {"name", "enabled"}
       /\ {e.name : e \in body.secrets} = {s.name : s \in secrets}
       /\ body.count = Cardinality(body.secrets)
       /\ body.count = Cardinality(secrets)
  /\ \A s \in secrets :
       LET resp == get_secret_backend(s.name, secrets).resp IN
         resp.status = 200 /\ Has(resp.body, "value") /\ resp.body.value = s.value
  /\ (last.op = "list_secrets" /\ last.status = 200)
       => /\ \A e \in last.body.secrets : DOMAIN e = {"name", "enabled"}
          /\ last.body.count = Cardinality(last.body.secrets)
  /\ (last.op = "get_secret" /\ last.status = 200) => Has(last.body, "value")

\* a list of a vault holding two secrets was answered
C9_Witness ==
  /\ last.op = "list_secrets"
  /\ last.status = 200
  /\ last.body.count = 2
  /\ Cardinality(secrets) = 2

\* C10: every stored item has an id and a category, both non-empty, and a get
\* and a delete with the item's own (id, category) are not rejected as missing
\* the category: the get returns the item and the delete removes it.
C10_StoredItemsAddressable ==
  \A d \in items :
    /\ Has(d, "id") /\ d.id # ""
    /\ Has(d, "category") /\ d.category # ""
    /\ get_item_validate(Some(d.category)) = None
    /\ get_item_backend(d.id, d.category, items).resp = Resp(200, d)
    /\ delete_item_validate(Some(d.category)) = None
    /\ delete_item_backend(d.id, d.category, items).store = items \ {d}

====
